---- MODULE Spec2Model ----
(***************************************************************************)
(* Room lifecycle and role assignment of the StreamYard discovery backend  *)
(* (Express handlers over a Mongoose "Room" collection).                   *)
(*                                                                         *)
(* The store is the only shared state.  A handler is atomic between two    *)
(* awaited store operations: POST /room, GET /room/:id, POST .../start and *)
(* POST .../stop await one store operation and are one step each;          *)
(* POST /room/:id/join awaits Room.findOne and, on the append branch,      *)
(* room.save(), and is two steps (JoinRoom, JoinSave) between which other  *)
(* requests may run.                                                       *)
(*                                                                         *)
(* Identities are strings in the code and are only compared for equality;  *)
(* they are numbered here, 0 standing for a missing or empty (falsy) one.  *)
(*                                                                         *)
(* The "User" collection, POST /auth/signup, POST /auth/login, the tokens   *)
(* of jsonwebtoken and the start of the process are modelled as well.      *)
(* POST /auth/signup awaits User.findOne and User.create and is two steps  *)
(* (Signup, SignupCreate); POST /auth/login awaits User.findOne only.      *)
(*                                                                         *)
(* Spec       interleaves the room requests that reach the store, on one   *)
(*            room.                                                        *)
(* SpecSeq    runs every room request, rejected ones included, to          *)
(*            completion before the next one starts, on up to MaxRooms     *)
(*            rooms.                                                       *)
(* SpecReq    does the same on rooms with at most MaxJoined guests.        *)
(* SpecAuth   starts the process under every configuration and             *)
(*            interleaves signups and logins.                              *)
(* SpecToken  lets the clock advance between the issue of a token and the  *)
(*            requests that carry it.                                      *)
(* SpecCreate creates up to MaxCreated rooms and starts and stops them.    *)
(* SpecE2E    lets clients sign up, log in and use the issued tokens on    *)
(*            one room.                                                    *)
(* SpecFrame  runs the room requests on up to MaxCreated rooms with short  *)
(*            guest lists, beside a stored user.                           *)
(* SpecStore  lets the store accept or reject each write of the room       *)
(*            requests.                                                    *)
(* SpecReg    runs signups with fields at and beyond the validators'       *)
(*            bounds.                                                      *)
(***************************************************************************)
EXTENDS Integers, Sequences, FiniteSets, TLC

\* const MAX_GUESTS = 10;
MAX_GUESTS == 10

\* Bounds of the model: rooms created, identities, request slots, and joins
\* that call room.save() while another save waits.
MaxRooms == 1
MaxUsers == 12
NumProcs == 2
MaxRaces == 1
\* Rooms created where no join runs; hours on the clock; guests of a room
\* where the guest list is kept short.
MaxCreated == 2
MaxClock == 26
MaxJoined == 1

NoId == 0
UserIds == 1..MaxUsers
Procs == 1..NumProcs

\* Bearer tokens a request may carry: none, one jwt.verify rejects, one it accepts.
NoToken == "none"
BadToken == "bad"
GoodToken == "good"
Tokens == {NoToken, BadToken, GoodToken}

\* hlsPlaybackUrl of the request body: absent, or a caller-supplied URL.
NoUrl == [base |-> "", roomId |-> 0]
GivenUrl == [base |-> "https://cdn.example.com/live/stream.m3u8", roomId |-> 0]

----------------------------------------------------------------------------
\* Configuration, users and tokens.

\* process.env.MONGO_URI and process.env.JWT_SECRET: unset, or set.
NoUri == ""
MongoUri == "mongodb://localhost:27017/streamyard"
NoSecret == ""
JwtSecret == "jwt-secret"
OtherSecret == "other-secret"
Envs == [MONGO_URI : {NoUri, MongoUri}, JWT_SECRET : {NoSecret, JwtSecret}]

\* An email address as written: local part and domain, and whether it is
\* written with capital letters ("Ann@X.com" for "ann@x.com").  No domain: not
\* an email address.
Ann == [local |-> "ann", domain |-> "x.com", caps |-> FALSE]
AnnCaps == [local |-> "ann", domain |-> "x.com", caps |-> TRUE]
Bob == [local |-> "bob", domain |-> "x.com", caps |-> FALSE]
NotAnEmail == [local |-> "ann", domain |-> "", caps |-> FALSE]
Emails == {Ann, AnnCaps, Bob, NotAnEmail}
\* A gmail.com address with a dot in its local part.
Dotted == [local |-> "a.b", domain |-> "gmail.com", caps |-> FALSE]

\* A name as written: the text and whether blanks surround it.
Names == {[text |-> "Ann", pad |-> TRUE], [text |-> "A", pad |-> FALSE]}

SignupPasswords == {"secret1", "abc"}
LoginPasswords == {"secret1", "abc", ""}

\* String.prototype.trim
trim(name) == [name EXCEPT !.pad = FALSE]

\* Variant: the letters are left as written.
toLowerCaseKeep(email) == email

\* String.prototype.toLowerCase
toLowerCase(email) == [email EXCEPT !.caps = FALSE]

\* express-validator: isEmail(), and normalizeEmail(), which puts the
\* address in lower case and, with its default options, takes the dots out of
\* the local part of a gmail.com address.
isEmail(email) == email.local # "" /\ email.domain # ""
removeDots(local) == IF local = "a.b" THEN "ab" ELSE local
normalizeEmailKeepCase(email) == email
normalizeEmail(email) ==
    IF email.domain = "gmail.com"
    THEN [toLowerCase(email) EXCEPT !.local = removeDots(@)]
    ELSE toLowerCase(email)

\* jwt.sign: expiresIn '24h', on a clock that counts hours.
expiresIn == 24

NoPayload == [userId |-> 0, email |-> [local |-> "", domain |-> "", caps |-> FALSE],
              name |-> [text |-> "", pad |-> FALSE]]

\* The signature of a token: made with a key over the claims.
HS256(key, payload, iat, exp) == [key |-> key, payload |-> payload, iat |-> iat, exp |-> exp]

\* No token (no Authorization header).
NoJwt == [payload |-> NoPayload, iat |-> 0, exp |-> 0,
          signature |-> HS256(NoSecret, NoPayload, 0, 0)]

\* Variant of jwt.sign: an expiry far beyond 24 hours.
jwtSignNoExpiry(payload, secret, now) ==
    [payload |-> payload, iat |-> now, exp |-> now + 1000,
     signature |-> HS256(secret, payload, now, now + 1000)]

\* jwt.sign(payload, secret, { expiresIn: '24h' }) at time now
jwtSign(payload, secret, now) ==
    [payload |-> payload, iat |-> now, exp |-> now + expiresIn,
     signature |-> HS256(secret, payload, now, now + expiresIn)]

\* jwt.verify(token, secret) at time now: the error, or the claims.
jwtVerifyClaims(token, secret, now) ==
    IF secret = NoSecret
        THEN [err |-> "JsonWebTokenError", user |-> NoPayload]
    ELSE IF token.signature # HS256(secret, token.payload, token.iat, token.exp)
        THEN [err |-> "JsonWebTokenError", user |-> NoPayload]
    ELSE IF now >= token.exp
        THEN [err |-> "TokenExpiredError", user |-> NoPayload]
    ELSE [err |-> "", user |-> token.payload]

\* Variant of generateToken: the claims carry the name where the identity
\* belongs.
generateTokenSwapped(user, secret, now) ==
    IF secret = NoSecret THEN [err |-> TRUE, token |-> NoJwt]
    ELSE [err |-> FALSE,
          token |-> jwtSign([userId |-> user._id + 1, email |-> user.email, name |-> user.name],
                            secret, now)]

\* generateToken(user): throws when JWT_SECRET is not set.
generateToken(user, secret, now) ==
    IF secret = NoSecret THEN [err |-> TRUE, token |-> NoJwt]
    ELSE [err |-> FALSE,
          token |-> jwtSign([userId |-> user._id, email |-> user.email, name |-> user.name],
                            secret, now)]

\* Variant of the view: the whole document.
UserViewWithPassword(user) ==
    [id |-> user._id, name |-> user.name, email |-> user.email, password |-> user.password]

\* The user view of the signup and login responses.
UserView(user) == [id |-> user._id, name |-> user.name, email |-> user.email]

VARIABLES
    env,        \* process.env: MONGO_URI and JWT_SECRET
    phase,      \* the process: "boot", "connecting", "listening" or "exited"
    connection, \* the store connection: "disconnected" or "connected"
    users,      \* the User collection: sequence of documents in creation order
    signups,    \* per request slot: the signup waiting for User.create, or idle
    now,        \* the clock, in hours
    held,       \* the token the client got with its last signup or login
    rooms,      \* the Room collection: sequence of documents in creation order
    uuidCount,  \* number of uuidv4() values generated so far
    pending,    \* per request slot: the join waiting for room.save(), or idle
    races,      \* number of joins that called room.save() while another save waited
    response,   \* the last response sent, with the route and the request
                \* parameters its handler read
    found       \* the document that handler's store operation found (its state
                \* before the operation changed it), NoDoc when it found none

vars == <<env, phase, connection, users, signups, now, held,
          rooms, uuidCount, pending, races, response, found>>

\* What the room handlers leave alone, and what the other handlers do.
serverVars == <<env, phase, connection, users, signups, now, held>>
roomVars == <<rooms, uuidCount, pending, races>>

Range(s) == {s[i] : i \in 1..Len(s)}

Idle == [pc |-> "idle"]

NoDoc ==
    [roomId |-> 0, title |-> "", hostId |-> NoId, guestIds |-> << >>,
     webrtcRoomId |-> [prefix |-> "", uuid |-> 0],
     hlsPlaybackUrl |-> NoUrl,
     chatChannelId |-> [prefix |-> "", uuid |-> 0],
     status |-> ""]

\* The slots whose join waits for its room.save() to be executed by the store.
Saving == {p \in Procs : pending[p].pc = "save"}

----------------------------------------------------------------------------
\* Helpers of the source.

\* Variant: identifiers that repeat from one request to the next.
uuidv4Repeating(n, k) == k

\* uuidv4(): the k-th identifier generated after n earlier ones; all distinct.
uuidv4(n, k) == n + k

buildMockHlsUrl(roomId) == [base |-> "https://example.com/hls/index.m3u8", roomId |-> roomId]

buildJoinResponse(room, role) ==
    [role |-> role,
     roomId |-> room.roomId,
     webrtcRoomId |-> room.webrtcRoomId,
     hlsUrl |-> room.hlsPlaybackUrl,
     chatRoomId |-> room.chatChannelId]

\* jwt.verify(token, JWT_SECRET): TRUE when the callback gets no error.
jwtVerify(token) == token = GoodToken

\* Variant of the middleware: any token that is present passes.
authenticateTokenNoVerify(token) ==
    IF token = NoToken THEN 401 ELSE 0

\* authenticateToken: 0 when next() is called, else the status it answers with.
authenticateToken(token) ==
    IF token = NoToken THEN 401
    ELSE IF ~jwtVerify(token) THEN 403
    ELSE 0

AuthError(code) ==
    [status |-> "error",
     message |-> IF code = 401 THEN "Access token required" ELSE "Invalid or expired token"]

\* Variant of the query: no filter, the first document of the collection.
FindOneAny(id) ==
    IF rooms # << >> THEN 1 ELSE 0

\* Room.findOne({ roomId: id }): index of the document in the collection, 0 for null.
FindOne(id) ==
    IF \E i \in 1..Len(rooms) : rooms[i].roomId = id
    THEN CHOOSE i \in 1..Len(rooms) : rooms[i].roomId = id
    ELSE 0

\* The view GET /room/:id and POST /room build from a document.
RoomView(room) ==
    [roomId |-> room.roomId,
     title |-> room.title,
     hostId |-> room.hostId,
     webrtcRoomId |-> room.webrtcRoomId,
     hlsPlaybackUrl |-> room.hlsPlaybackUrl,
     chatChannelId |-> room.chatChannelId,
     status |-> room.status]

\* Variants of the classification: capacity test off by one, no host test,
\* no test for an identity that is already a guest.
JoinRoleOffByOne(room, userId) ==
    IF room.hostId = userId THEN "host"
    ELSE IF userId \in Range(room.guestIds) THEN "guest"
    ELSE IF Len(room.guestIds) <= MAX_GUESTS THEN "append"
    ELSE "audience"

JoinRoleNoHost(room, userId) ==
    IF userId \in Range(room.guestIds) THEN "guest"
    ELSE IF Len(room.guestIds) < MAX_GUESTS THEN "append"
    ELSE "audience"

JoinRoleNoRejoin(room, userId) ==
    IF room.hostId = userId THEN "host"
    ELSE IF Len(room.guestIds) < MAX_GUESTS THEN "append"
    ELSE "audience"

\* The role the join handler gives userId on the document it read ("append":
\* guest, after pushing userId and saving).
JoinRole(room, userId) ==
    IF room.hostId = userId THEN "host"
    ELSE IF userId \in Range(room.guestIds) THEN "guest"
    ELSE IF Len(room.guestIds) < MAX_GUESTS THEN "append"
    ELSE "audience"

\* Variants of the save: the whole local array replaces the stored one; the
\* identity is put in front.
SaveOverwrite(stored, doc, pushed) ==
    [stored EXCEPT !.guestIds = doc.guestIds]

SavePrepend(stored, doc, pushed) ==
    [stored EXCEPT !.guestIds = <<pushed>> \o stored.guestIds]

\* Variant: the document as the handler holds it replaces the stored one.
SaveDocument(stored, doc, pushed) == doc

\* room.save() after room.guestIds.push(userId): Mongoose sends the change of
\* the document as an update, { $push: { guestIds: userId } }, which the store
\* applies to the document as stored at that moment.
Save(stored, doc, pushed) ==
    [stored EXCEPT !.guestIds = Append(stored.guestIds, pushed)]

\* Variants of the status update: an ended room stays ended; the document is
\* replaced by one that has only the new status.
findOneAndUpdateGuarded(stored, status) ==
    IF stored.status = "ended" THEN stored ELSE [stored EXCEPT !.status = status]

findOneAndReplace(stored, status) ==
    [stored EXCEPT !.status = status, !.guestIds = << >>]

\* Room.findOneAndUpdate({ roomId }, { status }, { new: true }) on the stored document.
findOneAndUpdate(stored, status) == [stored EXCEPT !.status = status]

----------------------------------------------------------------------------
\* Inputs.

\* Bodies of POST /room: without a title, without a host, without and with a
\* playback URL.
CreateBodies ==
    {[title |-> "", hostId |-> 1, hlsPlaybackUrl |-> NoUrl],
     [title |-> "My Live Show", hostId |-> NoId, hlsPlaybackUrl |-> NoUrl],
     [title |-> "My Live Show", hostId |-> 1, hlsPlaybackUrl |-> NoUrl],
     [title |-> "My Live Show", hostId |-> 2, hlsPlaybackUrl |-> GivenUrl]}
ValidCreateBodies == {b \in CreateBodies : b.title # "" /\ b.hostId # NoId}

RoomIds == {rooms[i].roomId : i \in 1..Len(rooms)}
\* Room identities a request may address: every stored one, and one no room has.
RoomIdInputs == RoomIds \cup {0}

\* Identities in the room: its host, its guests, and the identities of the
\* joins waiting to be saved on it.
InRoom(room) ==
    {room.hostId} \cup Range(room.guestIds)
      \cup {pending[p].pushed : p \in {q \in Saving : pending[q].doc.roomId = room.roomId}}

\* Identities already in the room that a join request may carry: the host, the
\* first and the last guest, and the identities of the joins waiting to be saved.
Known(room) ==
    {room.hostId}
      \cup (IF room.guestIds = << >> THEN {}
            ELSE {room.guestIds[1], room.guestIds[Len(room.guestIds)]})
      \cup {pending[p].pushed : p \in {q \in Saving : pending[q].doc.roomId = room.roomId}}

Least(S) == CHOOSE x \in S : \A y \in S : x <= y

\* userId of a join request: missing, an identity already in the room, or one
\* new to the room.  The handler only compares identities for equality, so the
\* identities new to a room are interchangeable and the least one stands for all.
UserIdInputs(id) ==
    IF FindOne(id) = 0 THEN {NoId, 1}
    ELSE LET room == rooms[FindOne(id)]
             new == UserIds \ InRoom(room)
         IN  {NoId} \cup Known(room) \cup (IF new = {} THEN {} ELSE {Least(new)})

----------------------------------------------------------------------------
\* Both collections empty, no request in flight, nothing answered yet.
Empty ==
    /\ users = << >>
    /\ signups = [p \in Procs |-> Idle]
    /\ now = 0
    /\ held = NoJwt
    /\ rooms = << >>
    /\ uuidCount = 0
    /\ pending = [p \in Procs |-> Idle]
    /\ races = 0
    /\ response = [op |-> "none", id |-> 0, userId |-> NoId, code |-> 0, body |-> [error |-> ""]]
    /\ found = NoDoc

\* The process as it is started, under any configuration.
Boot ==
    /\ env \in Envs
    /\ phase = "boot"
    /\ connection = "disconnected"
    /\ Empty

\* The configured process once app.listen has been called.
Init ==
    /\ env = [MONGO_URI |-> MongoUri, JWT_SECRET |-> JwtSecret]
    /\ phase = "listening"
    /\ connection = "connected"
    /\ Empty

\* res.status(code).json(body) of route op.  id and userId are req.params.id and
\* the userId of the body as far as the handler read them (0 when it answered
\* before); doc is the document its store operation found.
Respond(op, id, userId, code, body, doc) ==
    /\ response' = [op |-> op, id |-> id, userId |-> userId, code |-> code, body |-> body]
    /\ found' = doc

\* res.status(code).json(body) of the auth route op; email is req.body.email as
\* the client wrote it.
RespondAuth(op, email, code, body) ==
    /\ response' = [op |-> op, id |-> 0, userId |-> NoId, code |-> code, body |-> body,
                    email |-> email]
    /\ found' = NoDoc

\* POST /room
CreateRoom(token, title, hostId, hlsPlaybackUrl) ==
    LET auth == authenticateToken(token)
        roomId == uuidv4(uuidCount, 1)
        room == [roomId |-> roomId,
                 title |-> title,
                 hostId |-> hostId,
                 guestIds |-> << >>,
                 webrtcRoomId |-> [prefix |-> "webrtc-", uuid |-> uuidv4(uuidCount, 2)],
                 hlsPlaybackUrl |-> IF hlsPlaybackUrl # NoUrl THEN hlsPlaybackUrl
                                    ELSE buildMockHlsUrl(roomId),
                 chatChannelId |-> [prefix |-> "chat-", uuid |-> uuidv4(uuidCount, 3)],
                 status |-> "created"]
    IN  IF auth # 0 THEN
            /\ Respond("create", 0, NoId, auth, AuthError(auth), NoDoc)
            /\ UNCHANGED <<rooms, uuidCount, pending, races>>
        ELSE IF title = "" \/ hostId = NoId THEN
            /\ Respond("create", 0, NoId, 400, [error |-> "title and hostId are required"], NoDoc)
            /\ UNCHANGED <<rooms, uuidCount, pending, races>>
        ELSE
            /\ rooms' = Append(rooms, room)
            /\ uuidCount' = uuidCount + 3
            /\ Respond("create", 0, NoId, 201, RoomView(room), NoDoc)
            /\ UNCHANGED <<pending, races>>

\* POST /room/:id/join, up to the response or to the call of room.save()
JoinRoom(p, token, id, userId) ==
    LET auth == authenticateToken(token)
        i == FindOne(id)
    IN  /\ pending[p].pc = "idle"
        /\ IF auth # 0 THEN
               /\ Respond("join", 0, NoId, auth, AuthError(auth), NoDoc)
               /\ UNCHANGED <<rooms, uuidCount, pending, races>>
           ELSE IF userId = NoId THEN
               /\ Respond("join", 0, userId, 400, [error |-> "userId is required"], NoDoc)
               /\ UNCHANGED <<rooms, uuidCount, pending, races>>
           ELSE IF i = 0 THEN
               /\ Respond("join", id, userId, 404, [error |-> "room not found"], NoDoc)
               /\ UNCHANGED <<rooms, uuidCount, pending, races>>
           ELSE IF JoinRole(rooms[i], userId) = "append" THEN
               \* at most MaxRaces joins call room.save() while another save waits
               /\ Saving = {} \/ races < MaxRaces
               /\ races' = IF Saving = {} THEN races ELSE races + 1
               /\ pending' = [pending EXCEPT ![p] =
                      [pc |-> "save", id |-> id, pushed |-> userId, read |-> rooms[i],
                       doc |-> [rooms[i] EXCEPT !.guestIds = Append(@, userId)]]]
               /\ UNCHANGED <<rooms, uuidCount, response, found>>
           ELSE
               /\ Respond("join", id, userId, 200,
                          buildJoinResponse(rooms[i], JoinRole(rooms[i], userId)), rooms[i])
               /\ UNCHANGED <<rooms, uuidCount, pending, races>>

\* POST /room/:id/join, from the store's execution of room.save() to the response
JoinSave(p) ==
    /\ pending[p].pc = "save"
    /\ LET doc == pending[p].doc
           i == FindOne(doc.roomId)
       IN  /\ rooms' = [rooms EXCEPT ![i] = Save(rooms[i], doc, pending[p].pushed)]
           /\ Respond("join", pending[p].id, pending[p].pushed, 200,
                      buildJoinResponse(doc, "guest"), pending[p].read)
    /\ pending' = [pending EXCEPT ![p] = Idle]
    /\ UNCHANGED <<uuidCount, races>>

\* GET /room/:id
GetRoom(token, id) ==
    LET auth == authenticateToken(token)
        i == FindOne(id)
    IN  /\ IF auth # 0 THEN Respond("get", 0, NoId, auth, AuthError(auth), NoDoc)
           ELSE IF i = 0 THEN Respond("get", id, NoId, 404, [error |-> "room not found"], NoDoc)
           ELSE Respond("get", id, NoId, 200, RoomView(rooms[i]), rooms[i])
        /\ UNCHANGED <<rooms, uuidCount, pending, races>>

\* POST /room/:id/start ("live") and POST /room/:id/stop ("ended")
SetStatus(op, status, token, id) ==
    LET auth == authenticateToken(token)
        i == FindOne(id)
    IN  IF auth # 0 THEN
            /\ Respond(op, 0, NoId, auth, AuthError(auth), NoDoc)
            /\ UNCHANGED <<rooms, uuidCount, pending, races>>
        ELSE IF i = 0 THEN
            /\ Respond(op, id, NoId, 404, [error |-> "room not found"], NoDoc)
            /\ UNCHANGED <<rooms, uuidCount, pending, races>>
        ELSE
            /\ rooms' = [rooms EXCEPT ![i] = findOneAndUpdate(rooms[i], status)]
            /\ Respond(op, id, NoId, 200,
                       [roomId |-> rooms'[i].roomId, status |-> rooms'[i].status], rooms[i])
            /\ UNCHANGED <<uuidCount, pending, races>>

StartRoom(token, id) == SetStatus("start", "live", token, id)

StopRoom(token, id) == SetStatus("stop", "ended", token, id)

----------------------------------------------------------------------------
\* Start of the process.

\* Variant: a failed connection is logged and the server listens all the same.
onConnectAlwaysListen(ok) == "listening"

\* if (!MONGO_URI) process.exit(1), else mongoose.connect(MONGO_URI)
checkMongoUri(uri) == IF uri = NoUri THEN "exited" ELSE "connecting"

\* .then(() => app.listen(...)) and .catch(() => process.exit(1))
onConnect(ok) == IF ok THEN "listening" ELSE "exited"

Startup ==
    /\ phase = "boot"
    /\ phase' = checkMongoUri(env.MONGO_URI)
    /\ UNCHANGED <<env, connection, users, signups, now, held, roomVars, response, found>>

\* The outcome of mongoose.connect: the store is reached, or it is not.
Connect(ok) ==
    /\ phase = "connecting"
    /\ connection' = IF ok THEN "connected" ELSE "disconnected"
    /\ phase' = onConnect(ok)
    /\ UNCHANGED <<env, users, signups, now, held, roomVars, response, found>>

----------------------------------------------------------------------------
\* The User collection and the auth routes.

\* Variant of the query: no filter, the first document of the collection.
UserFindOneAny(email) ==
    IF users # << >> THEN 1 ELSE 0

\* User.findOne({ email }): index of the document in the collection, 0 for null.
UserFindOne(email) ==
    IF \E i \in 1..Len(users) : users[i].email = email
    THEN CHOOSE i \in 1..Len(users) : users[i].email = email
    ELSE 0

\* Variant of the collection: no unique index on email.
UserCreateNoIndex(doc) ==
    [code |-> 0, users |-> Append(users, [_id |-> Len(users) + 1] @@ doc)]

\* User.create(doc): the unique index on email refuses a second document with
\* the same email with error code 11000; else the document gets its _id.
UserCreate(doc) ==
    IF \E i \in 1..Len(users) : users[i].email = doc.email
    THEN [code |-> 11000, users |-> users]
    ELSE [code |-> 0, users |-> Append(users, [_id |-> Len(users) + 1] @@ doc)]

\* The failures express-validator reports (field and message of each).
Failure(field, msg) == [field |-> field, message |-> msg]

\* Variant of the signup validators: the name is measured with the blanks
\* around it and the password may have 127 characters at most.
SignupErrorsUntrimmed(name, email, password) ==
    (IF Len(name.text) + (IF name.pad THEN 2 ELSE 0) \in 2..50 THEN << >>
     ELSE <<Failure("name", "Name must be between 2 and 50 characters")>>)
    \o (IF isEmail(email) THEN << >>
        ELSE <<Failure("email", "Please provide a valid email address")>>)
    \o (IF Len(password) \in 6..127 THEN << >>
        ELSE <<Failure("password", "Password must be between 6 and 128 characters")>>)

SignupErrors(name, email, password) ==
    (IF Len(trim(name).text) \in 2..50 THEN << >>
     ELSE <<Failure("name", "Name must be between 2 and 50 characters")>>)
    \o (IF isEmail(email) THEN << >>
        ELSE <<Failure("email", "Please provide a valid email address")>>)
    \o (IF Len(password) \in 6..128 THEN << >>
        ELSE <<Failure("password", "Password must be between 6 and 128 characters")>>)

LoginErrors(email, password) ==
    (IF isEmail(email) THEN << >>
     ELSE <<Failure("email", "Please provide a valid email address")>>)
    \o (IF Len(password) >= 1 THEN << >>
        ELSE <<Failure("password", "Password is required")>>)

\* validateInput: the 400 response
ValidationFailed(errors) ==
    [status |-> "error", message |-> "Validation failed", code |-> "VALIDATION_ERROR",
     details |-> errors]

Failed(code, message) == [status |-> "error", message |-> message, code |-> code]

\* POST /auth/signup, up to the response or to the call of User.create
Signup(p, name, email, password) ==
    LET errors == SignupErrors(name, email, password)
        body == [name |-> trim(name), email |-> normalizeEmail(email), password |-> password]
    IN  /\ signups[p].pc = "idle"
        /\ IF errors # << >> THEN
               /\ RespondAuth("signup", email, 400, ValidationFailed(errors))
               /\ UNCHANGED <<users, signups>>
           ELSE IF UserFindOne(body.email) # 0 THEN
               /\ RespondAuth("signup", email, 409,
                          Failed("USER_EXISTS", "An account with this email address already exists. Please try logging in instead."))
               /\ UNCHANGED <<users, signups>>
           ELSE
               /\ signups' = [signups EXCEPT ![p] =
                      [pc |-> "create",
                       asked |-> email,
                       doc |-> [name |-> trim(body.name),
                                email |-> toLowerCase(body.email),
                                password |-> body.password]]]
               /\ UNCHANGED <<users, response, found>>

\* POST /auth/signup, from the store's execution of User.create to the response
SignupCreate(p) ==
    /\ signups[p].pc = "create"
    /\ LET created == UserCreate(signups[p].doc)
           newUser == created.users[Len(created.users)]
           issued == generateToken(newUser, env.JWT_SECRET, now)
       IN  IF created.code = 11000 THEN
               /\ RespondAuth("signup", signups[p].asked, 409,
                          Failed("DUPLICATE_EMAIL", "An account with this email address already exists."))
               /\ UNCHANGED users
           ELSE
               /\ users' = created.users
               /\ IF issued.err
                  THEN RespondAuth("signup", signups[p].asked, 500,
                               Failed("SIGNUP_FAILED", "We're experiencing technical difficulties. Please try again later."))
                  ELSE RespondAuth("signup", signups[p].asked, 201,
                               [status |-> "success",
                                message |-> "Account created successfully! You are now logged in.",
                                code |-> "USER_CREATED",
                                token |-> issued.token,
                                user |-> UserView(newUser)])
    /\ signups' = [signups EXCEPT ![p] = Idle]

\* POST /auth/login (the requestId of the response, a log correlator, is left out)
Login(email, password) ==
    LET errors == LoginErrors(email, password)
        body == [email |-> normalizeEmail(email), password |-> password]
        i == UserFindOne(toLowerCase(body.email))
        issued == generateToken(users[i], env.JWT_SECRET, now)
    IN  /\ IF errors # << >> THEN
               RespondAuth("login", email, 400, ValidationFailed(errors))
           ELSE IF i = 0 THEN
               RespondAuth("login", email, 401,
                       Failed("USER_NOT_FOUND", "No account found with this email address. Please check your email or sign up for a new account."))
           ELSE IF users[i].password # body.password THEN
               RespondAuth("login", email, 401,
                       Failed("INVALID_PASSWORD", "Incorrect password. Please check your password and try again."))
           ELSE IF issued.err THEN
               RespondAuth("login", email, 500,
                       Failed("TOKEN_GENERATION_FAILED", "Authentication successful but token generation failed. Please try again."))
           ELSE
               RespondAuth("login", email, 200,
                       [status |-> "success",
                        message |-> "Login successful! Welcome back.",
                        code |-> "LOGIN_SUCCESS",
                        token |-> issued.token,
                        user |-> UserView(users[i])])
        /\ UNCHANGED <<users, signups>>

\* The Authorization header as authenticateToken sees it: no token, one
\* jwt.verify accepts at this time, or one it rejects.
Bearer(token) ==
    IF token = NoJwt THEN NoToken
    ELSE IF jwtVerifyClaims(token, env.JWT_SECRET, now).err = "" THEN GoodToken
    ELSE BadToken

----------------------------------------------------------------------------
\* Requests that pass the middleware and the input checks and address a stored
\* room, interleaving at their store operations.  A handler reads and writes
\* only the document it addresses, so the interleavings are explored on one room.

RaceCreateRoom ==
    /\ rooms = << >>
    /\ \E b \in ValidCreateBodies :
           CreateRoom(GoodToken, b.title, b.hostId, b.hlsPlaybackUrl)
    /\ UNCHANGED serverVars

RaceJoinRoom ==
    /\ \E p \in Procs, id \in RoomIds :
           \E userId \in UserIdInputs(id) \ {NoId} : JoinRoom(p, GoodToken, id, userId)
    /\ UNCHANGED serverVars

RaceJoinSave == (\E p \in Procs : JoinSave(p)) /\ UNCHANGED serverVars

RaceGetRoom == (\E id \in RoomIds : GetRoom(GoodToken, id)) /\ UNCHANGED serverVars

RaceStartRoom == (\E id \in RoomIds : StartRoom(GoodToken, id)) /\ UNCHANGED serverVars

RaceStopRoom == (\E id \in RoomIds : StopRoom(GoodToken, id)) /\ UNCHANGED serverVars

Next ==
    \/ RaceCreateRoom
    \/ RaceJoinRoom
    \/ RaceJoinSave
    \/ RaceGetRoom
    \/ RaceStartRoom
    \/ RaceStopRoom

Spec == Init /\ [][Next]_vars

----------------------------------------------------------------------------
\* Every request, each running to completion before the next one starts.

Quiet == Saving = {}

SeqCreateRoom ==
    /\ Quiet
    /\ \E token \in Tokens, b \in CreateBodies :
           /\ Len(rooms) < MaxRooms \/ token # GoodToken \/ b \notin ValidCreateBodies
           /\ CreateRoom(token, b.title, b.hostId, b.hlsPlaybackUrl)
    /\ UNCHANGED serverVars

SeqJoinRoom ==
    /\ Quiet
    /\ \E token \in Tokens, id \in RoomIdInputs :
           \E userId \in UserIdInputs(id) : JoinRoom(1, token, id, userId)
    /\ UNCHANGED serverVars

SeqJoinSave == JoinSave(1) /\ UNCHANGED serverVars

SeqGetRoom ==
    /\ Quiet
    /\ \E token \in Tokens, id \in RoomIdInputs : GetRoom(token, id)
    /\ UNCHANGED serverVars

SeqStartRoom ==
    /\ Quiet
    /\ \E token \in Tokens, id \in RoomIdInputs : StartRoom(token, id)
    /\ UNCHANGED serverVars

SeqStopRoom ==
    /\ Quiet
    /\ \E token \in Tokens, id \in RoomIdInputs : StopRoom(token, id)
    /\ UNCHANGED serverVars

NextSeq ==
    \/ SeqCreateRoom
    \/ SeqJoinRoom
    \/ SeqJoinSave
    \/ SeqGetRoom
    \/ SeqStartRoom
    \/ SeqStopRoom

SpecSeq == Init /\ [][NextSeq]_vars

----------------------------------------------------------------------------
\* Every request, one after another, on rooms whose guest lists stay short.

\* The join would append to a guest list that has MaxJoined entries.
Lengthens(token, id, userId) ==
    IF token # GoodToken \/ userId = NoId \/ FindOne(id) = 0 THEN FALSE
    ELSE /\ JoinRole(rooms[FindOne(id)], userId) = "append"
         /\ Len(rooms[FindOne(id)].guestIds) >= MaxJoined

ReqJoinRoom ==
    /\ Quiet
    /\ \E token \in Tokens, id \in RoomIdInputs :
           \E userId \in UserIdInputs(id) :
               /\ ~Lengthens(token, id, userId)
               /\ JoinRoom(1, token, id, userId)
    /\ UNCHANGED serverVars

NextReq ==
    \/ SeqCreateRoom
    \/ ReqJoinRoom
    \/ SeqJoinSave
    \/ SeqGetRoom
    \/ SeqStartRoom
    \/ SeqStopRoom

SpecReq == Init /\ [][NextReq]_vars

----------------------------------------------------------------------------
\* The process from its start, under every configuration, with signups and
\* logins interleaving at their store operations and requests that carry the
\* token a client holds, none, or one that was not signed with JWT_SECRET.

Listening == phase = "listening"

\* The client keeps the token of a successful signup or login.
Hold ==
    held' = IF response'.op \in {"signup", "login"} /\ response'.code \in {200, 201}
            THEN response'.body.token
            ELSE held

\* Tokens a request may carry: none, the one held, the one held with another
\* identity written into its claims, and one signed with another secret.
Carried ==
    {NoJwt, held,
     [held EXCEPT !.payload.userId = @ + 1],
     jwtSign(held.payload, OtherSecret, held.iat)}

AuthSignup ==
    /\ Listening
    /\ \E p \in Procs, name \in Names, email \in Emails, password \in SignupPasswords :
           Signup(p, name, email, password)
    /\ Hold
    /\ UNCHANGED <<env, phase, connection, now, roomVars>>

AuthSignupCreate ==
    /\ Listening
    /\ \E p \in Procs : SignupCreate(p)
    /\ Hold
    /\ UNCHANGED <<env, phase, connection, now, roomVars>>

AuthLogin ==
    /\ Listening
    /\ \E email \in Emails, password \in LoginPasswords : Login(email, password)
    /\ Hold
    /\ UNCHANGED <<env, phase, connection, now, roomVars>>

\* A room request with a carried token (GET /room/:id; no room is stored).
AuthGetRoom ==
    /\ Listening
    /\ \E token \in Carried, id \in RoomIdInputs : GetRoom(Bearer(token), id)
    /\ UNCHANGED serverVars

NextAuth ==
    \/ Startup
    \/ \E ok \in BOOLEAN : Connect(ok)
    \/ AuthSignup
    \/ AuthSignupCreate
    \/ AuthLogin
    \/ AuthGetRoom

SpecAuth == Boot /\ [][NextAuth]_vars

----------------------------------------------------------------------------
\* One account, its tokens, and the clock.

Tick ==
    /\ now < MaxClock
    /\ now' = now + 1
    /\ UNCHANGED <<env, phase, connection, users, signups, held, roomVars, response, found>>

TokenSignup ==
    /\ Signup(1, [text |-> "Ann", pad |-> FALSE], Ann, "secret1")
    /\ Hold
    /\ UNCHANGED <<env, phase, connection, now, roomVars>>

TokenSignupCreate ==
    /\ SignupCreate(1)
    /\ Hold
    /\ UNCHANGED <<env, phase, connection, now, roomVars>>

TokenLogin ==
    /\ Login(Ann, "secret1")
    /\ Hold
    /\ UNCHANGED <<env, phase, connection, now, roomVars>>

TokenGetRoom ==
    /\ \E token \in Carried, id \in RoomIdInputs : GetRoom(Bearer(token), id)
    /\ UNCHANGED serverVars

NextToken ==
    \/ Tick
    \/ TokenSignup
    \/ TokenSignupCreate
    \/ TokenLogin
    \/ TokenGetRoom

SpecToken == Init /\ [][NextToken]_vars

----------------------------------------------------------------------------
\* Rooms created one after another, started and stopped, no join.

CreateCreateRoom ==
    /\ \E b \in CreateBodies :
           /\ Len(rooms) < MaxCreated \/ b \notin ValidCreateBodies
           /\ CreateRoom(GoodToken, b.title, b.hostId, b.hlsPlaybackUrl)
    /\ UNCHANGED serverVars

CreateGetRoom == (\E id \in RoomIdInputs : GetRoom(GoodToken, id)) /\ UNCHANGED serverVars

CreateStartRoom == (\E id \in RoomIdInputs : StartRoom(GoodToken, id)) /\ UNCHANGED serverVars

CreateStopRoom == (\E id \in RoomIdInputs : StopRoom(GoodToken, id)) /\ UNCHANGED serverVars

NextCreate ==
    \/ CreateCreateRoom
    \/ CreateGetRoom
    \/ CreateStartRoom
    \/ CreateStopRoom

SpecCreate == Init /\ [][NextCreate]_vars

----------------------------------------------------------------------------
\* Clients that sign up and then work on rooms with the tokens their signups
\* were answered with, each request running to completion before the next, on
\* one room.

\* The tokens the stored users' signups were answered with (the clock stands
\* still here).
Issued == {generateToken(users[i], env.JWT_SECRET, now).token : i \in 1..Len(users)}

\* req.user as the middleware leaves it for the handler: the claims of the token.
reqUser(token) == jwtVerifyClaims(token, env.JWT_SECRET, now).user

\* Variant of the join handler: the identity is taken from the token's claims.
joinUserIdOfToken(body, user) == user.userId

\* const { userId } = req.body: the identity the join handler classifies.
joinUserId(body, user) == body.userId

\* POST /room/:id/join with a token as the client sends it.
E2EJoin(token, id, userId) ==
    JoinRoom(1, Bearer(token), id, joinUserId([userId |-> userId], reqUser(token)))

\* The passwords of these clients.
E2EPasswords == {"secret1", "secret2"}

E2ESignup ==
    /\ \E email \in {Ann, Bob}, password \in E2EPasswords :
           Signup(1, [text |-> "Ann", pad |-> FALSE], email, password)
    /\ Hold
    /\ UNCHANGED <<env, phase, connection, now, roomVars>>

E2ELogin ==
    /\ signups[1].pc = "idle"
    /\ \E email \in {Ann, AnnCaps, Bob}, password \in E2EPasswords : Login(email, password)
    /\ Hold
    /\ UNCHANGED <<env, phase, connection, now, roomVars>>

E2ESignupCreate ==
    /\ SignupCreate(1)
    /\ Hold
    /\ UNCHANGED <<env, phase, connection, now, roomVars>>

E2ECreateRoom ==
    /\ Quiet
    /\ \E token \in Carried, b \in ValidCreateBodies :
           /\ rooms = << >> \/ Bearer(token) # GoodToken
           /\ CreateRoom(Bearer(token), b.title, b.hostId, b.hlsPlaybackUrl)
    /\ UNCHANGED serverVars

E2EJoinRoom ==
    /\ Quiet
    /\ \E token \in Issued \cup {NoJwt}, id \in RoomIds :
           \E userId \in UserIdInputs(id) \ {NoId} :
               /\ ~Lengthens(Bearer(token), id, userId)
               /\ E2EJoin(token, id, userId)
    /\ UNCHANGED serverVars

E2EJoinSave == JoinSave(1) /\ UNCHANGED serverVars

E2EStartRoom ==
    /\ Quiet
    /\ \E id \in RoomIds : StartRoom(Bearer(held), id)
    /\ UNCHANGED serverVars

E2EGetRoom ==
    /\ Quiet
    /\ \E id \in RoomIds : GetRoom(Bearer(held), id)
    /\ UNCHANGED serverVars

NextE2E ==
    \/ E2ESignup
    \/ E2ESignupCreate
    \/ E2ELogin
    \/ E2ECreateRoom
    \/ E2EJoinRoom
    \/ E2EJoinSave
    \/ E2EStartRoom
    \/ E2EGetRoom

SpecE2E == Init /\ [][NextE2E]_vars

----------------------------------------------------------------------------
\* Several rooms and a user: requests with a valid token that address a stored
\* room, one after another, on rooms whose guest lists stay short.

FrameCreateRoom ==
    /\ Quiet
    /\ Len(rooms) < MaxCreated
    /\ \E b \in {c \in ValidCreateBodies : c.hlsPlaybackUrl = NoUrl} :
           CreateRoom(GoodToken, b.title, b.hostId, b.hlsPlaybackUrl)
    /\ UNCHANGED serverVars

FrameJoinRoom ==
    /\ Quiet
    /\ \E id \in RoomIds :
           \E userId \in UserIdInputs(id) \ {NoId} :
               /\ ~Lengthens(GoodToken, id, userId)
               /\ JoinRoom(1, GoodToken, id, userId)
    /\ UNCHANGED serverVars

FrameJoinSave == JoinSave(1) /\ UNCHANGED serverVars

FrameGetRoom ==
    /\ Quiet
    /\ \E id \in RoomIds : GetRoom(GoodToken, id)
    /\ UNCHANGED serverVars

FrameStartRoom ==
    /\ Quiet
    /\ \E id \in RoomIds : StartRoom(GoodToken, id)
    /\ UNCHANGED serverVars

FrameStopRoom ==
    /\ Quiet
    /\ \E id \in RoomIds : StopRoom(GoodToken, id)
    /\ UNCHANGED serverVars

NextFrame ==
    \/ TokenSignup
    \/ TokenSignupCreate
    \/ FrameCreateRoom
    \/ FrameJoinRoom
    \/ FrameJoinSave
    \/ FrameGetRoom
    \/ FrameStartRoom
    \/ FrameStopRoom

SpecFrame == Init /\ [][NextFrame]_vars

----------------------------------------------------------------------------
\* The store rejecting a write.  A rejected write leaves the collection as it
\* was, the awaited call throws, and the handler's catch answers.

\* Variant of the catch of the join handler: the request stays waiting to save
\* again.
catchJoinRetry(slot) == slot

\* catch (error) of the join handler: the response ends the request.
catchJoin(slot) == Idle

\* POST /room when Room.create rejects
CreateRoomRejected(token, title, hostId, hlsPlaybackUrl) ==
    /\ authenticateToken(token) = 0
    /\ title # "" /\ hostId # NoId
    /\ uuidCount' = uuidCount + 3
    /\ Respond("create", 0, NoId, 500, [error |-> "failed to create room"], NoDoc)
    /\ UNCHANGED <<rooms, pending, races>>

\* POST /room/:id/join when room.save() rejects
JoinSaveRejected(p) ==
    /\ pending[p].pc = "save"
    /\ Respond("join", pending[p].id, pending[p].pushed, 500,
               [error |-> "failed to join room"], pending[p].read)
    /\ pending' = [pending EXCEPT ![p] = catchJoin(pending[p])]
    /\ UNCHANGED <<rooms, uuidCount, races>>

\* POST /room/:id/start and POST /room/:id/stop when Room.findOneAndUpdate rejects
SetStatusRejected(op, token, id) ==
    /\ authenticateToken(token) = 0
    /\ Respond(op, id, NoId, 500,
               [error |-> IF op = "start" THEN "failed to start room"
                          ELSE "failed to stop room"], NoDoc)
    /\ UNCHANGED <<rooms, uuidCount, pending, races>>

\* Requests with a valid token, one after another, each write accepted or
\* rejected by the store.

StoreCreateRoom ==
    /\ Quiet
    /\ Len(rooms) < MaxRooms
    /\ uuidCount < 3 * MaxCreated
    /\ \E b \in ValidCreateBodies :
           CreateRoom(GoodToken, b.title, b.hostId, b.hlsPlaybackUrl)
    /\ UNCHANGED serverVars

StoreCreateRoomRejected ==
    /\ Quiet
    /\ uuidCount < 3 * MaxCreated
    /\ \E b \in ValidCreateBodies :
           CreateRoomRejected(GoodToken, b.title, b.hostId, b.hlsPlaybackUrl)
    /\ UNCHANGED serverVars

StoreJoinRoom ==
    /\ Quiet
    /\ \E id \in RoomIds :
           \E userId \in UserIdInputs(id) \ {NoId} :
               /\ ~Lengthens(GoodToken, id, userId)
               /\ JoinRoom(1, GoodToken, id, userId)
    /\ UNCHANGED serverVars

StoreJoinSave == JoinSave(1) /\ UNCHANGED serverVars

StoreJoinSaveRejected == JoinSaveRejected(1) /\ UNCHANGED serverVars

StoreGetRoom ==
    /\ Quiet
    /\ \E id \in RoomIds : GetRoom(GoodToken, id)
    /\ UNCHANGED serverVars

StoreSetStatus ==
    /\ Quiet
    /\ \E id \in RoomIds : StartRoom(GoodToken, id) \/ StopRoom(GoodToken, id)
    /\ UNCHANGED serverVars

StoreSetStatusRejected ==
    /\ Quiet
    /\ \E op \in {"start", "stop"}, id \in RoomIds : SetStatusRejected(op, GoodToken, id)
    /\ UNCHANGED serverVars

NextStore ==
    \/ StoreCreateRoom
    \/ StoreCreateRoomRejected
    \/ StoreJoinRoom
    \/ StoreJoinSave
    \/ StoreJoinSaveRejected
    \/ StoreGetRoom
    \/ StoreSetStatus
    \/ StoreSetStatusRejected

SpecStore == Init /\ [][NextStore]_vars

----------------------------------------------------------------------------
\* Signups, one after another, with names and passwords at and beyond the
\* bounds of the validators, and addresses that normalizeEmail() changes.

RegNames ==
    {[text |-> "A", pad |-> TRUE],
     [text |-> "Al", pad |-> TRUE],
     [text |-> "NNNNNNNNNNNNNNNNNNNNNNNNNNNNNNNNNNNNNNNNNNNNNNNNNN", pad |-> FALSE],
     [text |-> "NNNNNNNNNNNNNNNNNNNNNNNNNNNNNNNNNNNNNNNNNNNNNNNNNNN", pad |-> FALSE]}

RegEmails == {AnnCaps, Dotted, NotAnEmail}

RegPasswords ==
    {"abcde",
     "secret",
     "pppppppppppppppppppppppppppppppppppppppppppppppppppppppppppppppppppppppppppppppppppppppppppppppppppppppppppppppppppppppppppppppp",
     "ppppppppppppppppppppppppppppppppppppppppppppppppppppppppppppppppppppppppppppppppppppppppppppppppppppppppppppppppppppppppppppppppp"}

RegSignup ==
    /\ \E name \in RegNames, email \in RegEmails, password \in RegPasswords :
           Signup(1, name, email, password)
    /\ Hold
    /\ UNCHANGED <<env, phase, connection, now, roomVars>>

RegSignupCreate ==
    /\ SignupCreate(1)
    /\ Hold
    /\ UNCHANGED <<env, phase, connection, now, roomVars>>

NextReg ==
    \/ RegSignup
    \/ RegSignupCreate

SpecReg == Init /\ [][NextReg]_vars

----------------------------------------------------------------------------
\* Properties.

Stored(id) == rooms[FindOne(id)]
Distinct(s) == Cardinality(Range(s)) = Len(s)

\* The last response answers a request that passed the middleware and
\* addressed a stored room.
Answered(op) ==
    /\ response.op = op
    /\ response.code \notin {401, 403}
    /\ FindOne(response.id) # 0

\* C1: when each request runs to completion before the next one starts, every
\* room's guest list has at most MAX_GUESTS entries.
C1_GuestsWithinCapacity ==
    \A i \in 1..Len(rooms) : Len(rooms[i].guestIds) <= MAX_GUESTS

\* The tenth guest of a room has just been appended.
C1_Witness ==
    /\ Quiet
    /\ Answered("join")
    /\ response.code = 200
    /\ response.body.role = "guest"
    /\ Len(found.guestIds) = MAX_GUESTS - 1
    /\ Len(Stored(response.id).guestIds) = MAX_GUESTS

\* C2: the save of a join appends the join's identity to the guest list as
\* stored at the time of the save, however long that list has become since the
\* join read it: of two joins that both read 9 guests both append, and the
\* second makes the stored list MAX_GUESTS + 1 long.
C2_RacingJoinsBothAppend ==
    [][\A p \in Procs :
          JoinSave(p) =>
              LET id == pending[p].doc.roomId
              IN  /\ Len(pending[p].read.guestIds) < MAX_GUESTS
                  /\ rooms'[FindOne(id)].guestIds
                       = Append(Stored(id).guestIds, pending[p].pushed)
                  /\ response'.body.role = "guest"]_vars

\* Two joins of distinct identities have both read 9 guests and both appended.
C2_Witness ==
    \E i \in 1..Len(rooms) :
        /\ Len(rooms[i].guestIds) > MAX_GUESTS
        /\ Distinct(rooms[i].guestIds)
        /\ Len(found.guestIds) = MAX_GUESTS - 1
        /\ response.op = "join" /\ response.body.role = "guest"

\* C3: under every interleaving, a room's host is not in its guest list.
C3_HostIsNoGuest ==
    \A i \in 1..Len(rooms) : rooms[i].hostId \notin Range(rooms[i].guestIds)

\* The host has joined a room that has guests.
C3_Witness ==
    /\ Answered("join") /\ response.code = 200
    /\ response.userId = Stored(response.id).hostId
    /\ Stored(response.id).guestIds # << >>

\* C4: under every interleaving, no identity is twice in a room's guest list.
C4_NoDuplicateGuests ==
    \A i \in 1..Len(rooms) : Distinct(rooms[i].guestIds)

\* C5: a room's status only steps created -> live, created -> ended or
\* live -> ended; an ended room stays ended.
C5_StatusOnlyAdvances ==
    [][\A i \in 1..Len(rooms) :
          \/ rooms'[i].status = rooms[i].status
          \/ rooms[i].status = "created" /\ rooms'[i].status \in {"live", "ended"}
          \/ rooms[i].status = "live" /\ rooms'[i].status = "ended"]_vars

\* C6: start (stop) of a stored room answers 200 with the room identity and
\* the status live (ended) and leaves the room in that status, whatever its
\* status was.
C6_SetStatusOverwrites ==
    \A op \in {"start", "stop"} :
        Answered(op) =>
            LET status == IF op = "start" THEN "live" ELSE "ended"
            IN  /\ response.code = 200
                /\ response.body = [roomId |-> response.id, status |-> status]
                /\ Stored(response.id).status = status

\* An ended room has been started.
C6_Witness ==
    /\ Answered("start")
    /\ found.status = "ended"
    /\ Stored(response.id).status = "live"

\* C7: start of a live room and stop of an ended room answer 200 and leave the
\* room record as it was; the status a start or stop has set is the one the
\* view of GET /room/:id shows.
C7_SetStatusIdempotent ==
    /\ \A op \in {"start", "stop"} :
           Answered(op) =>
               /\ response.code = 200
               /\ found.status = response.body.status => Stored(response.id) = found
               /\ RoomView(Stored(response.id)).status = response.body.status
    /\ Answered("get") =>
           /\ response.code = 200
           /\ response.body.status = Stored(response.id).status

\* A live room with guests has been started again.
C7_Witness ==
    /\ Answered("start")
    /\ found.status = "live"
    /\ found.guestIds # << >>

\* C8: a join with the host's identity answers role host and leaves the guest
\* list as it was, in every state of the room.
C8_HostJoin ==
    Answered("join") /\ response.userId = Stored(response.id).hostId =>
        /\ response.code = 200
        /\ response.body.role = "host"
        /\ Stored(response.id).guestIds = found.guestIds
        /\ \A p \in Saving : pending[p].id = response.id => pending[p].pushed # response.userId

\* The host has joined an ended room whose guest list is full.
C8_Witness ==
    /\ Answered("join")
    /\ response.userId = found.hostId
    /\ Len(found.guestIds) >= MAX_GUESTS
    /\ found.status = "ended"

\* C9: a join with an identity that is in the guest list answers role guest and
\* leaves the guest list as it was, also when the list is full.
C9_Rejoin ==
    Answered("join") /\ response.userId \in Range(found.guestIds) =>
        /\ response.code = 200
        /\ response.body.role = "guest"
        /\ Stored(response.id).guestIds = found.guestIds

\* The first guest of a full room has joined again.
C9_Witness ==
    /\ Answered("join")
    /\ Len(found.guestIds) >= MAX_GUESTS
    /\ response.userId = found.guestIds[1]

\* C10: joins that run one after another append their identities in join order
\* up to MAX_GUESTS; a further identity that is neither host nor guest gets
\* role audience, nothing is saved and the guest list stays as it was.
C10_FillThenAudience ==
    /\ \A i \in 1..Len(rooms) : Distinct(rooms[i].guestIds)
    /\ ( /\ Answered("join")
         /\ response.code = 200
         /\ response.userId # found.hostId
         /\ response.userId \notin Range(found.guestIds) )
       => IF Len(found.guestIds) < MAX_GUESTS
          THEN /\ response.body.role = "guest"
               /\ Stored(response.id).guestIds = Append(found.guestIds, response.userId)
          ELSE /\ response.body.role = "audience"
               /\ Stored(response.id) = found
               /\ \A p \in Saving : pending[p].id # response.id

\* An eleventh identity has joined a room of ten distinct guests.
C10_Witness ==
    /\ Answered("join")
    /\ response.body.role = "audience"
    /\ Len(found.guestIds) = MAX_GUESTS
    /\ Distinct(found.guestIds)
    /\ response.userId \notin Range(found.guestIds) \cup {found.hostId}

\* C11: GET /room/:id, join with a userId, start and stop that address a room
\* identity no stored room has answer 404 "room not found", and the collection
\* and the waiting saves stay as they were.
C11_UnknownRoomNotFound ==
    [][\A id \in RoomIdInputs \ RoomIds :
          ( \/ GetRoom(GoodToken, id)
            \/ StartRoom(GoodToken, id)
            \/ StopRoom(GoodToken, id)
            \/ \E p \in Procs, userId \in UserIds : JoinRoom(p, GoodToken, id, userId) )
          => /\ response'.code = 404
             /\ response'.body = [error |-> "room not found"]
             /\ response'.id = id
             /\ found' = NoDoc
             /\ rooms' = rooms
             /\ pending' = pending]_vars

\* A stop has addressed an unknown room identity while a room with a guest is
\* stored.
C11_Witness ==
    /\ response.op = "stop"
    /\ response.code = 404
    /\ response.id \notin RoomIds
    /\ \E i \in 1..Len(rooms) : rooms[i].guestIds # << >>

\* C12: a room request without a token is answered 401 and one whose token
\* jwt.verify rejects is answered 403, whatever its body and the room it
\* addresses; no document is created, changed or shown in the response.
C12_TokenGate ==
    [][\A token \in {NoToken, BadToken} :
          ( \/ \E b \in CreateBodies : CreateRoom(token, b.title, b.hostId, b.hlsPlaybackUrl)
            \/ \E id \in RoomIdInputs :
                   \/ GetRoom(token, id)
                   \/ StartRoom(token, id)
                   \/ StopRoom(token, id)
                   \/ \E p \in Procs, userId \in UserIdInputs(id) : JoinRoom(p, token, id, userId) )
          => /\ response'.code = (IF token = NoToken THEN 401 ELSE 403)
             /\ response'.body.status = "error"
             /\ DOMAIN response'.body = {"status", "message"}
             /\ found' = NoDoc
             /\ rooms' = rooms
             /\ uuidCount' = uuidCount
             /\ pending' = pending]_vars

\* A join whose token jwt.verify rejects has been answered while a room is
\* stored.
C12_Witness ==
    /\ response.op = "join"
    /\ response.code = 403
    /\ rooms # << >>

\* The stored users whose email is the given one up to the case of its letters.
SameEmail(email) ==
    {i \in 1..Len(users) : toLowerCase(users[i].email) = toLowerCase(email)}

\* C13: a signup with valid fields whose email is, up to the case of its
\* letters, the email of a stored user is answered 409 there and then; no user
\* is created and none is waiting to be.
C13_DuplicateSignup ==
    [][\A p \in Procs, name \in Names, email \in Emails, password \in SignupPasswords :
          ( /\ Signup(p, name, email, password)
            /\ SignupErrors(name, email, password) = << >>
            /\ SameEmail(email) # {} )
          => /\ response'.op = "signup"
             /\ response'.code = 409
             /\ response'.body.status = "error"
             /\ users' = users
             /\ signups' = signups]_vars

\* "Ann@X.com" has been refused while the user ann@x.com is stored.
C13_Witness ==
    /\ response.op = "signup"
    /\ response.code = 409
    /\ response.email = AnnCaps
    /\ \E i \in 1..Len(users) : users[i].email = Ann

\* C14: no two stored users have the same email up to the case of its
\* letters, also when signups for one email interleave; the User.create that
\* finds the email stored is answered 409 DUPLICATE_EMAIL and creates nothing.
C14_UniqueEmail ==
    /\ [](\A i, j \in 1..Len(users) :
              toLowerCase(users[i].email) = toLowerCase(users[j].email) => i = j)
    /\ [][\A p \in Procs :
             (SignupCreate(p) /\ SameEmail(signups[p].doc.email) # {})
             => /\ response'.code = 409
                /\ response'.body.code = "DUPLICATE_EMAIL"
                /\ users' = users]_vars

\* Of two interleaved signups for ann@x.com, written differently, the second
\* has been refused by the unique index.
C14_Witness ==
    /\ response.op = "signup"
    /\ response.code = 409
    /\ response.body.code = "DUPLICATE_EMAIL"
    /\ response.email = AnnCaps
    /\ Len(users) = 1

\* C15: a login with valid fields is answered 401 USER_NOT_FOUND when no user
\* has the email and 401 INVALID_PASSWORD when a user has it with another
\* password; neither response carries a token and the client's token stays.
C15_LoginFailures ==
    [][\A email \in Emails, password \in LoginPasswords :
          (Login(email, password) /\ LoginErrors(email, password) = << >>)
          => /\ SameEmail(email) = {}
                => /\ response'.code = 401
                   /\ response'.body.code = "USER_NOT_FOUND"
                   /\ "token" \notin DOMAIN response'.body
                   /\ held' = held
             /\ (\E i \in SameEmail(email) : users[i].password # password)
                => /\ response'.code = 401
                   /\ response'.body.code = "INVALID_PASSWORD"
                   /\ "token" \notin DOMAIN response'.body
                   /\ held' = held]_vars

\* A login for "Ann@X.com" with a wrong password has been refused while
\* another user is stored as well.
C15_Witness ==
    /\ response.op = "login"
    /\ response.body.code = "INVALID_PASSWORD"
    /\ response.email = AnnCaps
    /\ Len(users) = 2

\* C16: the token of a 201 signup or 200 login response verifies with
\* JWT_SECRET, and its claims userId, email and name are the _id, email and
\* name of the stored user that has the request's email, whom the response's
\* user view shows.
C16_TokenClaims ==
    (response.op \in {"signup", "login"} /\ response.code \in {200, 201})
    => \E i \in SameEmail(response.email) :
           LET decoded == jwtVerifyClaims(response.body.token, env.JWT_SECRET, now)
           IN  /\ decoded.err = ""
               /\ decoded.user.userId = users[i]._id
               /\ decoded.user.email = users[i].email
               /\ decoded.user.name = users[i].name
               /\ response.body.user = UserView(users[i])
               /\ held = response.body.token

\* The second of two users has logged in.
C16_Witness ==
    /\ response.op = "login"
    /\ response.code = 200
    /\ Len(users) = 2
    /\ response.body.user.id = 2

\* C17: at every time, whatever requests were made since, the middleware lets
\* the token the client holds pass when fewer than 24 hours have gone by since
\* it was issued, and answers 403 from then on.
C17_TokenLifetime ==
    held # NoJwt =>
        /\ now - held.iat < 24 => authenticateToken(Bearer(held)) = 0
        /\ now - held.iat >= 24 => authenticateToken(Bearer(held)) = 403

\* A request has been answered 403 exactly 24 hours after the token the
\* client holds was issued.
C17_Witness ==
    /\ held # NoJwt
    /\ now = held.iat + 24
    /\ held.iat > 0
    /\ response.op = "get"
    /\ response.code = 403

\* C18: without JWT_SECRET the process does not come to listen, and no signup
\* or login is answered with a failure to issue the token.
C18_SecretRequiredAtStartup ==
    /\ env.JWT_SECRET = NoSecret => phase # "listening"
    /\ ~(response.op \in {"signup", "login"} /\ response.code = 500)

\* C19: the process listens only with MONGO_URI set and the store connected,
\* requests are answered only while it listens, and a process that has exited
\* has answered none.
C19_ListenAfterConnect ==
    /\ phase = "listening" => env.MONGO_URI # NoUri /\ connection = "connected"
    /\ response.op # "none" => phase = "listening"
    /\ (env.MONGO_URI = NoUri /\ phase # "boot") => phase = "exited"
    /\ phase = "exited" => response.op = "none" /\ users = << >> /\ connection = "disconnected"

\* The connection to the store has failed and the process has exited.
C19_Witness ==
    /\ phase = "exited"
    /\ env.MONGO_URI # NoUri
    /\ connection = "disconnected"

\* C20: POST /room with a title and a hostId appends one document with no
\* guests, status created and a roomId no stored room has, leaves the stored
\* rooms as they were and answers 201; without a title or a hostId it answers
\* 400 and the collection stays as it was.
C20_CreateRoom ==
    [][\A b \in CreateBodies :
          CreateRoom(GoodToken, b.title, b.hostId, b.hlsPlaybackUrl)
          => IF b.title # "" /\ b.hostId # NoId
             THEN /\ response'.code = 201
                  /\ Len(rooms') = Len(rooms) + 1
                  /\ SubSeq(rooms', 1, Len(rooms)) = rooms
                  /\ rooms'[Len(rooms')].guestIds = << >>
                  /\ rooms'[Len(rooms')].status = "created"
                  /\ rooms'[Len(rooms')].title = b.title
                  /\ rooms'[Len(rooms')].hostId = b.hostId
                  /\ rooms'[Len(rooms')].roomId \notin RoomIds
                  /\ response'.body.roomId = rooms'[Len(rooms')].roomId
             ELSE /\ response'.code = 400
                  /\ rooms' = rooms]_vars

\* A second room has been created while the first one is live.
C20_Witness ==
    /\ response.op = "create"
    /\ response.code = 201
    /\ Len(rooms) = 2
    /\ rooms[1].status = "live"
    /\ rooms[2].roomId = response.body.roomId
    /\ rooms[1].roomId # rooms[2].roomId

\* C21: the view GET /room/:id returns of a room that has guests carries the
\* stored guest list.
C21_GetRoomShowsGuests ==
    (Answered("get") /\ response.code = 200 /\ found.guestIds # << >>)
    => /\ "guestIds" \in DOMAIN response.body
       /\ response.body.guestIds = found.guestIds

\* C22: the scenario signup, create, join, start, get.  A client creates a room
\* only with the token of a successful signup, and the room is stored with
\* status created and no guests; the first join of a room by an identity that
\* is not its host answers guest and makes the guest list that one identity;
\* start makes the status live and keeps the guest list; GET /room/:id then
\* reports the stored status with the title, host and identifiers the room was
\* created with.
C22_EndToEnd ==
    /\ (response.op = "create" /\ response.code = 201)
       => /\ held \in Issued
          /\ rooms[Len(rooms)].roomId = response.body.roomId
          /\ rooms[Len(rooms)].status = "created"
          /\ rooms[Len(rooms)].guestIds = << >>
          /\ response.body.status = "created"
    /\ (Answered("join") /\ response.code = 200
          /\ found.guestIds = << >> /\ response.userId # found.hostId)
       => /\ response.body.role = "guest"
          /\ Stored(response.id).guestIds = <<response.userId>>
    /\ (Answered("start") /\ response.code = 200)
       => /\ Stored(response.id).status = "live"
          /\ response.body.status = "live"
          /\ Stored(response.id).guestIds = found.guestIds
    /\ (Answered("get") /\ response.code = 200)
       => LET i == FindOne(response.id)
          IN  /\ response.body.status = rooms[i].status
              /\ response.body.roomId = uuidv4(3 * (i - 1), 1)
              /\ response.body.webrtcRoomId = [prefix |-> "webrtc-", uuid |-> uuidv4(3 * (i - 1), 2)]
              /\ response.body.chatChannelId = [prefix |-> "chat-", uuid |-> uuidv4(3 * (i - 1), 3)]
              /\ \E b \in ValidCreateBodies :
                     /\ response.body.title = b.title
                     /\ response.body.hostId = b.hostId
                     /\ response.body.hlsPlaybackUrl =
                            IF b.hlsPlaybackUrl # NoUrl THEN b.hlsPlaybackUrl
                            ELSE buildMockHlsUrl(response.body.roomId)

\* The scenario has run to its end: the room of a signed-up client has one
\* guest, is live, and GET /room/:id has reported it live.
C22_Witness ==
    /\ held \in Issued
    /\ Answered("get")
    /\ response.code = 200
    /\ response.body.status = "live"
    /\ response.body.title = "My Live Show"
    /\ Len(Stored(response.id).guestIds) = 1
    /\ Stored(response.id).guestIds[1] # Stored(response.id).hostId

\* The stored users whose email has the letters of the given one, in any case.
Registered(email) ==
    {i \in 1..Len(users) :
        users[i].email.local = email.local /\ users[i].email.domain = email.domain}

\* C23: with JWT_SECRET set (as it is when a signup has succeeded), a login
\* whose email has the letters of a stored user's email, in any case, and whose
\* password is that user's, is answered 200 with that user's view and a token
\* that verifies and carries that user's identity.
C23_LoginAnyCase ==
    [][\A email \in Emails, password \in LoginPasswords :
          \A i \in Registered(email) :
              ( /\ Login(email, password)
                /\ users[i].password = password
                /\ env.JWT_SECRET # NoSecret )
              => /\ response'.op = "login"
                 /\ response'.code = 200
                 /\ response'.body.user.id = users[i]._id
                 /\ response'.body.token.payload.userId = users[i]._id
                 /\ jwtVerifyClaims(response'.body.token, env.JWT_SECRET, now).err = ""]_vars

\* A login written "Ann@X.com" has succeeded for the user stored as
\* "ann@x.com", who is not the first user of the collection.
C23_Witness ==
    /\ response.op = "login"
    /\ response.code = 200
    /\ response.email = AnnCaps
    /\ response.body.user.email = Ann
    /\ response.body.user.id = 2

\* C24: every response sent, of the auth routes and of the room routes, success
\* or failure, has a code field and a message field.
C24_EveryResponseHasCode ==
    response.op # "none"
    => /\ "code" \in DOMAIN response.body
       /\ "message" \in DOMAIN response.body

\* C25: a 201 signup or 200 login response has the fields status, message,
\* code, token and user; its user view has the fields id, name and email and
\* its token's claims userId, email and name, with the values of the stored
\* user; and view and token are the ones the handler makes for that user with
\* any other password in the password's place.
C25_NoSecretInResponse ==
    (response.op \in {"signup", "login"} /\ response.code \in {200, 201})
    => LET body == response.body
           user == users[body.user.id]
       IN  /\ DOMAIN body = {"status", "message", "code", "token", "user"}
           /\ body.status = "success"
           /\ body.code = (IF response.op = "signup" THEN "USER_CREATED" ELSE "LOGIN_SUCCESS")
           /\ DOMAIN body.user = {"id", "name", "email"}
           /\ DOMAIN body.token.payload = {"userId", "email", "name"}
           /\ body.user = [id |-> user._id, name |-> user.name, email |-> user.email]
           /\ body.token.payload =
                  [userId |-> user._id, email |-> user.email, name |-> user.name]
           /\ \A password \in E2EPasswords :
                  LET other == [user EXCEPT !.password = password]
                  IN  /\ body.user = UserView(other)
                      /\ body.token =
                             generateToken(other, env.JWT_SECRET, body.token.iat).token

\* A login has succeeded for a user while another user with the other
\* password is stored.
C25_Witness ==
    /\ response.op = "login"
    /\ response.code = 200
    /\ Len(users) = 2
    /\ users[response.body.user.id].password = "secret2"
    /\ users[3 - response.body.user.id].password = "secret1"

\* The rooms other than the one with identity id are as they were, and no
\* room has been added or removed.
OthersSame(id) ==
    /\ Len(rooms') = Len(rooms)
    /\ \A i \in 1..Len(rooms) : rooms[i].roomId # id => rooms'[i] = rooms[i]

\* C26: a join leaves the users and every other room as they were and changes
\* of the room it addresses the guest list at most, by appending its identity;
\* start and stop leave the users and every other room as they were and change
\* of the room they address the status at most; GET /room/:id changes no room
\* and no user.
C26_Frame ==
    [][\A id \in RoomIds :
          /\ ((\E userId \in UserIdInputs(id) : JoinRoom(1, GoodToken, id, userId))
                \/ (JoinSave(1) /\ pending[1].id = id))
             => /\ users' = users
                /\ OthersSame(id)
                /\ \A i \in 1..Len(rooms) :
                       rooms[i].roomId = id
                       => /\ [rooms'[i] EXCEPT !.guestIds = rooms[i].guestIds] = rooms[i]
                          /\ \/ rooms'[i].guestIds = rooms[i].guestIds
                             \/ /\ pending[1].pc = "save"
                                /\ rooms'[i].guestIds
                                     = Append(rooms[i].guestIds, pending[1].pushed)
          /\ (StartRoom(GoodToken, id) \/ StopRoom(GoodToken, id))
             => /\ users' = users
                /\ OthersSame(id)
                /\ \A i \in 1..Len(rooms) :
                       rooms[i].roomId = id
                       => [rooms'[i] EXCEPT !.status = rooms[i].status] = rooms[i]
          /\ GetRoom(GoodToken, id)
             => /\ users' = users
                /\ rooms' = rooms]_vars

\* A join has appended a guest to the second room while a user is stored and
\* the first room is live with a guest of its own.
C26_Witness ==
    /\ users # << >>
    /\ Len(rooms) = 2
    /\ rooms[1].status = "live"
    /\ rooms[1].guestIds # << >>
    /\ Answered("join")
    /\ response.id = rooms[2].roomId
    /\ response.body.role = "guest"
    /\ rooms[2].guestIds = <<response.userId>>
    /\ found.guestIds = << >>

\* C27: under every interleaving of joins and status changes, the identity a
\* join was just answered guest for is in the stored guest list; every step
\* leaves each room's guest list as a prefix of what it becomes, so a guest
\* stays and keeps its place after the guests before it; and a join by an
\* identity that is in the list the handler read is answered guest.
C27_GuestsStay ==
    /\ [](/\ (Answered("join") /\ response.code = 200 /\ response.body.role = "guest")
             => response.userId \in Range(Stored(response.id).guestIds)
          /\ (Answered("join") /\ response.code = 200
                /\ response.userId \in Range(found.guestIds))
             => response.body.role = "guest")
    /\ [][/\ Len(rooms') >= Len(rooms)
          /\ \A i \in 1..Len(rooms) :
                 /\ rooms'[i].roomId = rooms[i].roomId
                 /\ Len(rooms'[i].guestIds) >= Len(rooms[i].guestIds)
                 /\ SubSeq(rooms'[i].guestIds, 1, Len(rooms[i].guestIds))
                      = rooms[i].guestIds]_vars

\* The first guest of an ended room has joined again and been answered guest,
\* after two joins raced and both appended behind it.
C27_Witness ==
    /\ Answered("join")
    /\ response.body.role = "guest"
    /\ races > 0
    /\ Stored(response.id).status = "ended"
    /\ Len(Stored(response.id).guestIds) >= 3
    /\ Stored(response.id).guestIds[1] = response.userId
    /\ found.guestIds = Stored(response.id).guestIds

\* C28: a signup that is answered with an error leaves the stored users as
\* they were.
C28_FailedSignupStoresNothing ==
    [][\A p \in Procs :
          (SignupCreate(p) /\ response'.code # 201) => users' = users]_vars

\* C29: the save of a join changes nothing of the stored room but the guest
\* list, to which it appends the join's identity: the status a start or stop
\* has set since the join read the room stays; and a start or stop leaves the
\* guest list and the joins that wait to be saved as they were.
C29_JoinAndStatusBothKept ==
    [][/\ \A p \in Procs :
              JoinSave(p) =>
                  LET i == FindOne(pending[p].doc.roomId)
                  IN  /\ rooms'[i].status = rooms[i].status
                      /\ rooms'[i].guestIds = Append(rooms[i].guestIds, pending[p].pushed)
       /\ \A i \in 1..Len(rooms) :
              rooms'[i].status # rooms[i].status
              => /\ response'.op \in {"start", "stop"}
                 /\ rooms'[i].status = response'.body.status
                 /\ rooms'[i].guestIds = rooms[i].guestIds
                 /\ pending' = pending]_vars

\* A join that read the room as created has been saved after the room went
\* live: the room is live and has the join's guest.
C29_Witness ==
    /\ Answered("join")
    /\ response.code = 200
    /\ response.body.role = "guest"
    /\ found.status = "created"
    /\ found.guestIds = << >>
    /\ Stored(response.id).status = "live"
    /\ Stored(response.id).guestIds = <<response.userId>>

\* C30: a join with a token the server issued is classified by the stored room
\* and the userId of its body: it calls room.save() with that userId when the
\* room has a free guest place for it and is otherwise answered the role of
\* that userId (host for the room's hostId), and the same step is the join
\* with any other issued token.
C30_RoleIgnoresToken ==
    [][\A id \in RoomIds :
          \A userId \in UserIdInputs(id) \ {NoId} :
              \A token \in Issued :
                  E2EJoin(token, id, userId)
                  => /\ \A other \in Issued : E2EJoin(other, id, userId)
                     /\ IF JoinRole(rooms[FindOne(id)], userId) = "append"
                        THEN /\ pending'[1].pc = "save"
                             /\ pending'[1].pushed = userId
                        ELSE /\ pending' = pending
                             /\ response'.userId = userId
                             /\ response'.body.role = JoinRole(rooms[FindOne(id)], userId)
                             /\ (userId = rooms[FindOne(id)].hostId
                                   => response'.body.role = "host")]_vars

\* A join with the room's hostId has been answered host while the only user,
\* and so the holder of every issued token, has another identity.
C30_Witness ==
    /\ Answered("join")
    /\ response.body.role = "host"
    /\ response.userId = found.hostId
    /\ Len(users) = 1
    /\ users[1]._id # found.hostId
    /\ held \in Issued

\* C31: when the store rejects the Room.create of a POST /room, the
\* room.save() of a join or the findOneAndUpdate of a start or stop, the
\* request is answered 500 with an error text only, the stored rooms are those
\* of before the request, and the request is over: no save is left waiting.
C31_RejectedWrite ==
    [][/\ (\E b \in ValidCreateBodies :
              CreateRoomRejected(GoodToken, b.title, b.hostId, b.hlsPlaybackUrl))
          => /\ response'.op = "create"
             /\ response'.code = 500
             /\ DOMAIN response'.body = {"error"}
             /\ rooms' = rooms
             /\ pending' = pending
       /\ JoinSaveRejected(1)
          => /\ response'.op = "join"
             /\ response'.code = 500
             /\ DOMAIN response'.body = {"error"}
             /\ rooms' = rooms
             /\ rooms[FindOne(pending[1].id)] = pending[1].read
             /\ pending[1].pushed \notin Range(rooms'[FindOne(pending[1].id)].guestIds)
             /\ pending'[1] = Idle
       /\ (\E op \in {"start", "stop"}, id \in RoomIds :
              SetStatusRejected(op, GoodToken, id))
          => /\ response'.op \in {"start", "stop"}
             /\ response'.code = 500
             /\ DOMAIN response'.body = {"error"}
             /\ rooms' = rooms
             /\ pending' = pending]_vars

\* The save of a join on a live room was rejected: the join is answered 500
\* and the room is as the join read it, without the join's identity.
C31_Witness ==
    /\ response.op = "join"
    /\ response.code = 500
    /\ pending[1] = Idle
    /\ found.status = "live"
    /\ Stored(response.id) = found
    /\ response.userId \notin Range(found.guestIds)

\* The fields of a signup are inside the bounds: a name of 2 to 50 characters
\* between its blanks, an address with a local part and a domain, a password of
\* 6 to 128 characters.
InBounds(name, email, password) ==
    /\ Len(name.text) \in 2..50
    /\ email.local # "" /\ email.domain # ""
    /\ Len(password) \in 6..128

\* A signup step with these fields, stored being the email its user is to be
\* stored with: outside the bounds it is answered 400 and nothing is created
\* or asked of the store; inside them, with no user stored under that email,
\* it asks the store to create the user with the name without its blanks, that
\* email and the password.
SignupChecked(name, email, password, stored) ==
    Signup(1, name, email, password)
    => IF ~InBounds(name, email, password)
       THEN /\ response'.op = "signup"
            /\ response'.code = 400
            /\ response'.body.code = "VALIDATION_ERROR"
            /\ users' = users
            /\ signups' = signups
       ELSE (\A i \in 1..Len(users) : users[i].email # stored)
            => /\ users' = users
               /\ signups'[1].pc = "create"
               /\ signups'[1].doc = [name |-> [text |-> name.text, pad |-> FALSE],
                                     email |-> stored,
                                     password |-> password]

\* The store's step of a signup creates exactly the one user it was asked
\* for, and the signup is answered 201.
CreateChecked ==
    SignupCreate(1)
    => /\ response'.code = 201
       /\ users' = Append(users, [_id |-> Len(users) + 1] @@ signups[1].doc)

====
